---- MODULE Spec2Model ----
(***************************************************************************)
(* Model of ts-delegate (src/src/delegate.ts) and of the usage its README  *)
(* documents (src/unnamed/part_000).                                       *)
(*                                                                         *)
(* The world is a small heap of JavaScript objects: one recipient, three   *)
(* donor instances (each of a class of its own) and two donor classes      *)
(* with static members.  A property table gives, for a donor instance,     *)
(* the own properties of its prototype (what Object.getOwnPropertyNames    *)
(* of the prototype lists), for a donor class the properties a for...in    *)
(* loop over the class visits, and for the recipient its own members.      *)
(* Function objects carry the marks isDelegated and omitFirst; an absent   *)
(* mark property is falsy and is modelled as FALSE.                        *)
(***************************************************************************)
EXTENDS Integers, Sequences, FiniteSets, TLC

VARIABLES
  props,      \* the property table of every object
  mark,       \* isDelegated and omitFirst of every function object
  value,      \* the field `value` of every object
  field,      \* the field `field` of every object, when it has one
  fieldMark,  \* the mark a field decorator leaves on a donor's `field`
  last        \* history: the last operation and whether it threw

vars == <<props, mark, value, field, fieldMark, last>>

\* Numbers stored in fields and passed as arguments are 0..MaxVal.
MaxVal == 2
\* A call passes 1..MaxArgs arguments.
MaxArgs == 2
\* A binder call is given 0..MaxCands donors.
MaxCands == 2

----------------------------------------------------------------------------
(* Objects *)

Recipients == {"r"}
Instances == {"d1", "d2", "d3"}
Classes == {"S1", "S2"}
Donors == Instances \cup Classes
Objects == Recipients \cup Donors

\* Function objects, named after the methods of the documented examples.
InstanceFns == {"doSomething", "exampleMethod", "thisWontBeDelegated", "myMethod"}
StaticFns == {"add", "change"}
Fns == InstanceFns \cup StaticFns \cup {"ctor"}

\* Property names, in the order an enumeration lists them.
KeyOrder == <<"constructor", "field", "u", "n", "c", "w", "m">>
Keys == {KeyOrder[i] : i \in 1..Len(KeyOrder)}

----------------------------------------------------------------------------
(* Values a property can hold *)

Absent == [kind |-> "absent", f |-> "none", this |-> "none", self |-> "none"]
\* undefined or null
Nullish == [kind |-> "nullish", f |-> "none", this |-> "none", self |-> "none"]
\* a non-callable value (a number, a string)
Prim == [kind |-> "prim", f |-> "none", this |-> "none", self |-> "none"]
\* a plain function object
FnVal(f) == [kind |-> "fn", f |-> f, this |-> "none", self |-> "none"]
\* candidate[key].bind(candidate)
Bound(f, thisArg) == [kind |-> "bound", f |-> f, this |-> thisArg, self |-> "none"]
\* (...args) => val.apply(candidate, val.omitFirst ? [self, ...args] : args)
Arrow(val, candidate, self) ==
  [kind |-> "arrow", f |-> val, this |-> candidate, self |-> self]

NoProps == [k \in Keys |-> Absent]

\* The donor classes of the examples.
InitProps ==
  [o \in Objects |->
     CASE o = "d1" -> [NoProps EXCEPT !["constructor"] = FnVal("ctor"),
                                        !["m"] = FnVal("doSomething")]
       [] o = "d2" -> [NoProps EXCEPT !["constructor"] = FnVal("ctor"),
                                        !["c"] = Prim,
                                        !["w"] = FnVal("thisWontBeDelegated"),
                                        !["m"] = FnVal("exampleMethod")]
       [] o = "d3" -> [NoProps EXCEPT !["constructor"] = FnVal("ctor"),
                                        !["u"] = Nullish,
                                        !["m"] = FnVal("myMethod")]
       [] o = "S1" -> [NoProps EXCEPT !["field"] = Prim,
                                        !["m"] = FnVal("add")]
       [] o = "S2" -> [NoProps EXCEPT !["n"] = Nullish,
                                        !["m"] = FnVal("change")]
       [] OTHER -> NoProps]

----------------------------------------------------------------------------
(* Argument and result values *)

Num(n) == [o |-> "num", n |-> n]
Ref(x) == [o |-> x, n |-> 0]
Undefined == [o |-> "undefined", n |-> 0]
NaN == [o |-> "NaN", n |-> 0]

IsNum(a) == a.o = "num"
IsRef(a) == a.o \in Objects

Nums == {Num(n) : n \in 0..MaxVal}

RECURSIVE SeqsOf(_, _)
SeqsOf(S, n) ==
  IF n = 0 THEN {<<>>}
  ELSE LET shorter == SeqsOf(S, n - 1) IN
       shorter \cup {Append(s, x) : s \in {t \in shorter : Len(t) = n - 1}, x \in S}

\* The argument lists a caller passes.
ArgLists == {a \in SeqsOf(Nums, MaxArgs) : Len(a) >= 1}

\* The donor lists a binder is given.
CandLists(D) == SeqsOf(D, MaxCands)

----------------------------------------------------------------------------
(* The example methods the donors carry *)

\* a + b
Sum(args) ==
  IF Len(args) >= 2 /\ IsNum(args[1]) /\ IsNum(args[2])
  THEN Num(args[1].n + args[2].n)
  ELSE IF Len(args) >= 1 /\ IsRef(args[1]) THEN [o |-> "string", n |-> 0]
  ELSE NaN

\* Running function object f with the given this and arguments on the fields
\* val: the value returned, the fields afterwards, whether it threw.
Apply(f, this, args, val) ==
  CASE f = "doSomething" ->
         [ret |-> Undefined, value |-> [val EXCEPT ![this] = @ + 1], threw |-> FALSE]
    [] f \in {"exampleMethod", "add"} ->
         [ret |-> Sum(args), value |-> val, threw |-> FALSE]
    [] f = "change" ->
         IF Len(args) >= 2 /\ IsRef(args[1]) /\ IsNum(args[2])
         THEN [ret |-> Undefined,
               value |-> [val EXCEPT ![args[1].o] = args[2].n],
               threw |-> FALSE]
         ELSE [ret |-> Undefined, value |-> val, threw |-> TRUE]
    [] OTHER -> [ret |-> Undefined, value |-> val, threw |-> FALSE]

\* The calls the model runs: those whose stored numbers stay in 0..MaxVal and
\* whose host object, when one is passed, comes with the number to store.
InBounds(f, this, args, val) ==
  /\ f = "doSomething" => val[this] < MaxVal
  /\ f = "change" /\ Len(args) >= 1 /\ IsRef(args[1]) =>
       Len(args) >= 2 /\ IsNum(args[2])

----------------------------------------------------------------------------
(* Marks *)

NoMark == [isDelegated |-> FALSE, omitFirst |-> FALSE]

\* DecoratorMark with the decorator's argument dropped.
DecoratorMark_dropArg(omitArg) == [isDelegated |-> TRUE, omitFirst |-> FALSE]

\* The mark DelegateMethod(omitFirst) leaves on descriptor.value; omitArg is
\* the decorator's argument list, <<>> when omitFirst is left to its default.
DecoratorMark(omitArg) ==
  [isDelegated |-> TRUE,
   omitFirst |-> IF omitArg = <<>> THEN FALSE ELSE omitArg[1]]

\* IsDelegated with the test of the mark left out.
IsDelegated_anyFunction(v) == v.kind = "fn"

\* Truthiness of v.isDelegated for a value v that is not undefined or null.
IsDelegated(v) == v.kind = "fn" /\ mark[v.f].isDelegated

\* typeof v == "function"
IsFunction(v) == v.kind \in {"fn", "bound", "arrow"}

----------------------------------------------------------------------------
(* The binders *)

Get(p, o, key) == p[o][key]

\* The property names an enumeration of o yields, in order.
Enumerate(p, o) == SelectSeq(KeyOrder, LAMBDA k : p[o][k].kind # "absent")

\* InstallInstance binding the recipient instead of the donor.
InstallInstance_bindSelf(p, self, candidate, key) ==
  [p EXCEPT ![self][key] = [kind |-> "bound", f |-> p[candidate][key].f,
                            this |-> self, self |-> "none"]]

\* InstallInstance keeping a member the recipient already has.
InstallInstance_keepFirst(p, self, candidate, key) ==
  IF p[self][key].kind # "absent" THEN p
  ELSE [p EXCEPT ![self][key] = [kind |-> "bound", f |-> p[candidate][key].f,
                                 this |-> candidate, self |-> "none"]]

\* InstallInstance assigning the bound method to the donor.
InstallInstance_onCandidate(p, self, candidate, key) ==
  [p EXCEPT ![candidate][key] = [kind |-> "bound", f |-> p[candidate][key].f,
                                 this |-> candidate, self |-> "none"]]

\* self[key] = candidate[key].bind(candidate)
InstallInstance(p, self, candidate, key) ==
  [p EXCEPT ![self][key] = Bound(Get(p, candidate, key).f, candidate)]

\* The inner loop of delegate over the remaining keys of one candidate.
\* st is [props, threw]: reading .isDelegated of undefined or null throws and
\* ends the whole call.
RECURSIVE DelegateKeys(_, _, _, _)
DelegateKeys(st, self, candidate, keys) ==
  IF st.threw \/ keys = <<>> THEN st
  ELSE LET key == Head(keys)
           v == Get(st.props, candidate, key)
       IN IF v.kind = "nullish" THEN [st EXCEPT !.threw = TRUE]
          ELSE IF ~IsDelegated(v) THEN DelegateKeys(st, self, candidate, Tail(keys))
          ELSE DelegateKeys([st EXCEPT !.props = InstallInstance(@, self, candidate, key)],
                            self, candidate, Tail(keys))

RECURSIVE DelegateAll(_, _, _)
DelegateAll(st, self, cands) ==
  IF st.threw \/ cands = <<>> THEN st
  ELSE DelegateAll(DelegateKeys(st, self, Head(cands), Enumerate(st.props, Head(cands))),
                   self, Tail(cands))

\* self[key] = (...args) => val.apply(candidate, ...)
InstallStatic(p, self, candidate, key) ==
  [p EXCEPT ![self][key] = Arrow(Get(p, candidate, key).f, candidate, self)]

RECURSIVE StaticKeys(_, _, _, _)
StaticKeys(st, self, candidate, keys) ==
  IF keys = <<>> THEN st
  ELSE LET key == Head(keys)
           val == Get(st.props, candidate, key)
       IN IF ~IsFunction(val) \/ ~IsDelegated(val)
          THEN StaticKeys(st, self, candidate, Tail(keys))
          ELSE StaticKeys([st EXCEPT !.props = InstallStatic(@, self, candidate, key)],
                          self, candidate, Tail(keys))

RECURSIVE StaticAll(_, _, _)
StaticAll(st, self, cands) ==
  IF cands = <<>> THEN st
  ELSE StaticAll(StaticKeys(st, self, Head(cands), Enumerate(st.props, Head(cands))),
                 self, Tail(cands))

----------------------------------------------------------------------------
(* Calling what the binders installed *)

\* StaticArgs that never passes the recipient.
StaticArgs_neverPrepend(val, self, args) == args

\* The argument list the installed arrow function passes on.
StaticArgs(val, self, args) ==
  IF mark[val].omitFirst THEN <<Ref(self)>> \o args ELSE args

\* ArrowTarget looking the member up on the donor at every call.
ArrowTarget_late(cl, key) == props[cl.this][key].f

\* The function object the arrow function installed under key applies.
ArrowTarget(cl, key) == cl.f

\* What calling the callable cl, held under key, with args invokes.
Invoke(cl, key, args) ==
  IF cl.kind = "arrow"
  THEN [f |-> ArrowTarget(cl, key), this |-> cl.this,
        args |-> StaticArgs(ArrowTarget(cl, key), cl.self, args)]
  ELSE [f |-> cl.f, this |-> cl.this, args |-> args]

Run(inv) == Apply(inv.f, inv.this, inv.args, value)

----------------------------------------------------------------------------
(* State *)

NoFieldMark == [isDelegated |-> FALSE, allowGet |-> FALSE, allowSet |-> FALSE]
NoField == [has |-> FALSE, v |-> 0]
FieldOf(v) == [has |-> TRUE, v |-> v]

\* The donors of the examples that declare `field`.
FieldDonors == {"d1", "S1"}

Op(op, self, who, omit, threw) ==
  [op |-> op, self |-> self, who |-> who, omit |-> omit, threw |-> threw]

Init ==
  /\ props = InitProps
  /\ mark = [f \in Fns |-> NoMark]
  /\ value = [o \in Objects |-> 0]
  /\ field = [o \in Objects |-> IF o \in FieldDonors THEN FieldOf(0) ELSE NoField]
  /\ fieldMark = [o \in Donors |-> NoFieldMark]
  /\ last = Op("init", "none", <<>>, <<>>, FALSE)

----------------------------------------------------------------------------
(* Actions *)

\* @DelegateMethod(...omitArg) on the method whose function object is f.
DelegateMethod(f, omitArg) ==
  /\ mark' = [mark EXCEPT ![f] = DecoratorMark(omitArg)]
  /\ last' = Op("DelegateMethod", "none", <<f>>, omitArg, FALSE)
  /\ UNCHANGED <<props, value, field, fieldMark>>

delegate(self, delegateCandidates) ==
  LET res == DelegateAll([props |-> props, threw |-> FALSE], self, delegateCandidates)
  IN /\ props' = res.props
     /\ last' = Op("delegate", self, delegateCandidates, <<>>, res.threw)
     /\ UNCHANGED <<mark, value, field, fieldMark>>

delegateStatic(self, delegateCandidates) ==
  LET res == StaticAll([props |-> props, threw |-> FALSE], self, delegateCandidates)
  IN /\ props' = res.props
     /\ last' = Op("delegateStatic", self, delegateCandidates, <<>>, res.threw)
     /\ UNCHANGED <<mark, value, field, fieldMark>>

\* self.key(...args) on a member a binder installed
CallRecipient(self, key, args) ==
  LET cl == props[self][key]
      inv == Invoke(cl, key, args)
      res == Run(inv)
  IN /\ cl.kind \in {"bound", "arrow"}
     /\ InBounds(inv.f, inv.this, inv.args, value)
     /\ value' = res.value
     /\ last' = Op("callRecipient", self, <<key>>, <<>>, res.threw)
     /\ UNCHANGED <<props, mark, field, fieldMark>>

\* donor.key(...args), called directly
CallDonor(donor, key, args) ==
  LET v == props[donor][key]
      res == Apply(v.f, donor, args, value)
  IN /\ v.kind = "fn"
     /\ InBounds(v.f, donor, args, value)
     /\ value' = res.value
     /\ last' = Op("callDonor", "none", <<donor, key>>, <<>>, res.threw)
     /\ UNCHANGED <<props, mark, field, fieldMark>>

\* donor.value = v, written directly
SetDonorValue(donor, v) ==
  /\ value' = [value EXCEPT ![donor] = v]
  /\ last' = Op("setDonorValue", "none", <<donor>>, <<>>, FALSE)
  /\ UNCHANGED <<props, mark, field, fieldMark>>

\* Donor.key = f, a static member assigned another function
ReassignStatic(donor, key, f) ==
  /\ props[donor][key].kind = "fn"
  /\ props' = [props EXCEPT ![donor][key] = FnVal(f)]
  /\ last' = Op("reassignStatic", "none", <<donor, key>>, <<>>, FALSE)
  /\ UNCHANGED <<mark, value, field, fieldMark>>

\* The mark @DelegateField(get?, set?) leaves; both default to true.
FieldDecoratorMark(fargs) ==
  [isDelegated |-> TRUE,
   allowGet |-> IF Len(fargs) >= 1 THEN fargs[1] ELSE TRUE,
   allowSet |-> IF Len(fargs) >= 2 THEN fargs[2] ELSE TRUE]

\* @DelegateField(...fargs) on the donor's `field`
DelegateField(donor, fargs) ==
  /\ fieldMark' = [fieldMark EXCEPT ![donor] = FieldDecoratorMark(fargs)]
  /\ last' = Op("DelegateField", "none", <<donor>>, fargs, FALSE)
  /\ UNCHANGED <<props, mark, value, field>>

\* AssignField writing through to every donor that declares the field.
AssignField_writeThrough(fld, self, v) ==
  [o \in DOMAIN fld |-> IF o = self \/ fld[o].has THEN [has |-> TRUE, v |-> v] ELSE fld[o]]

\* The fields after self.field = v: no binder installs an accessor, so the
\* assignment defines or overwrites the data property of self itself.
AssignField(fld, self, v) == [fld EXCEPT ![self] = FieldOf(v)]

\* this.field = v, in the recipient
AssignRecipientField(self, v) ==
  /\ field' = AssignField(field, self, v)
  /\ last' = Op("assignRecipientField", self, <<>>, <<>>, FALSE)
  /\ UNCHANGED <<props, mark, value, fieldMark>>

\* Donor.field = v, written directly
SetDonorField(donor, v) ==
  /\ field' = [field EXCEPT ![donor] = FieldOf(v)]
  /\ last' = Op("setDonorField", "none", <<donor>>, <<>>, FALSE)
  /\ UNCHANGED <<props, mark, value, fieldMark>>

OmitArgs == {<<>>, <<TRUE>>, <<FALSE>>}
FieldArgs == {<<>>, <<TRUE, FALSE>>, <<FALSE, TRUE>>}

\* The donor whose method reads and writes its own `value`.
Counters == {"d1"}

\* Instance delegation, with calls and direct field writes.
NextInst ==
  \/ \E f \in InstanceFns : DelegateMethod(f, <<>>)
  \/ \E r \in Recipients, cs \in CandLists(Instances) : delegate(r, cs)
  \/ \E r \in Recipients, k \in Keys, a \in ArgLists : CallRecipient(r, k, a)
  \/ \E d \in Instances, k \in Keys, a \in ArgLists : CallDonor(d, k, a)
  \/ \E d \in Counters, v \in 0..MaxVal : SetDonorValue(d, v)

SpecInst == Init /\ [][NextInst]_vars

\* Static delegation, with marks of either mode, calls through the recipient
\* and direct calls.
DirectArgLists == ArgLists \cup {<<Ref(r)>> \o a : r \in Recipients, a \in ArgLists}

NextStatic ==
  \/ \E f \in StaticFns, oa \in OmitArgs : DelegateMethod(f, oa)
  \/ \E r \in Recipients, cs \in CandLists(Classes) : delegateStatic(r, cs)
  \/ \E r \in Recipients, k \in Keys, a \in ArgLists : CallRecipient(r, k, a)
  \/ \E d \in Classes, k \in Keys, a \in DirectArgLists : CallDonor(d, k, a)

SpecStatic == Init /\ [][NextStatic]_vars

\* Static delegation where a function is marked again and a donor's static
\* member is assigned anew after binding.
NextRebind ==
  \/ \E f \in StaticFns, oa \in OmitArgs : DelegateMethod(f, oa)
  \/ \E r \in Recipients, cs \in CandLists(Classes) : delegateStatic(r, cs)
  \/ \E r \in Recipients, k \in Keys, a \in ArgLists : CallRecipient(r, k, a)
  \/ \E d \in Classes, k \in Keys, f \in StaticFns : ReassignStatic(d, k, f)

SpecRebind == Init /\ [][NextRebind]_vars

\* Both binders over every donor list, with marks.
NextBind ==
  \/ \E f \in InstanceFns : DelegateMethod(f, <<>>)
  \/ \E f \in StaticFns, oa \in OmitArgs : DelegateMethod(f, oa)
  \/ \E r \in Recipients, cs \in CandLists(Instances) : delegate(r, cs)
  \/ \E r \in Recipients, cs \in CandLists(Classes) : delegateStatic(r, cs)

SpecBind == Init /\ [][NextBind]_vars

\* Field delegation as the README documents its use.
NextField ==
  \/ \E f \in {"doSomething", "add"} : DelegateMethod(f, <<>>)
  \/ \E d \in FieldDonors, fa \in FieldArgs : DelegateField(d, fa)
  \/ \E r \in Recipients, cs \in CandLists(FieldDonors \cap Instances) : delegate(r, cs)
  \/ \E r \in Recipients, cs \in CandLists(FieldDonors \cap Classes) : delegateStatic(r, cs)
  \/ \E r \in Recipients, v \in 0..MaxVal : AssignRecipientField(r, v)
  \/ \E d \in FieldDonors, v \in 0..MaxVal : SetDonorField(d, v)

SpecField == Init /\ [][NextField]_vars

----------------------------------------------------------------------------
(* Properties *)

Binders == {"delegate", "delegateStatic"}

\* Member k of object o is a function carrying the mark isDelegated.
CarriesMark(o, k) == props[o][k].kind = "fn" /\ mark[props[o][k].f].isDelegated

\* Recipient r holds a member a binder installed from donor d.
HasBound(r, d) == \E k \in Keys : props[r][k].kind \in {"bound", "arrow"} /\ props[r][k].this = d

DefaultFieldMark == [isDelegated |-> TRUE, allowGet |-> TRUE, allowSet |-> TRUE]

\* C1: after delegate(recipient, [d]) has returned, every marked method m of
\* d is a member of the recipient, and in every later state (after calls and
\* direct writes of d's fields) calling recipient.m(A) returns what d.m(A)
\* returns and leaves the fields d.m(A) leaves: it runs the donor's function
\* with this = d, and the recipient's own field is not touched.
C1_InstanceEquivalence ==
  /\ \A r \in Recipients, k \in Keys :
       props[r][k].kind = "bound" =>
         LET cl == props[r][k]
             d == cl.this
         IN /\ d \in Instances
            /\ props[d][k] = FnVal(cl.f)
            /\ \A a \in ArgLists :
                 /\ Run(Invoke(cl, k, a)) = Apply(props[d][k].f, d, a, value)
                 /\ Run(Invoke(cl, k, a)).value[r] = value[r]
  /\ (last.op = "delegate" /\ ~last.threw /\ Len(last.who) = 1) =>
       \A k \in Keys :
         CarriesMark(last.who[1], k) =>
           /\ props[last.self][k].kind = "bound"
           /\ props[last.self][k].this = last.who[1]

C1_Witness ==
  /\ last.op = "callRecipient"
  /\ props["r"]["m"] = Bound("doSomething", "d1")
  /\ value["d1"] > 0
  /\ value["r"] = 0

\* C2: after delegateStatic(recipient, [Donor]) every marked static method m
\* of Donor is a member of the recipient, and a call recipient.m(A1..An)
\* applies Donor.m to (recipient, A1..An) when m's mark has omitFirst true
\* and to exactly (A1..An) when it is false, returning Donor.m's result:
\* add(a, b) returns a + b, and change(v) stores v in recipient.value.
C2_StaticArguments ==
  /\ \A r \in Recipients, k \in Keys :
       props[r][k].kind = "arrow" =>
         LET cl == props[r][k]
             D == cl.this
             omit == mark[cl.f].omitFirst
         IN /\ D \in Classes
            /\ cl.self = r
            /\ props[D][k] = FnVal(cl.f)
            /\ \A a \in ArgLists :
                 LET inv == Invoke(cl, k, a)
                     passed == IF omit THEN <<Ref(r)>> \o a ELSE a
                 IN /\ inv = [f |-> props[D][k].f, this |-> D, args |-> passed]
                    /\ Run(inv) = Apply(props[D][k].f, D, passed, value)
                    /\ ~omit => \A i \in 1..Len(inv.args) : inv.args[i] # Ref(r)
                    /\ (cl.f = "add" /\ ~omit /\ Len(a) >= 2) =>
                         Run(inv).ret = Num(a[1].n + a[2].n)
                    /\ (cl.f = "change" /\ omit) =>
                         Run(inv).value[r] = a[1].n
  /\ (last.op = "delegateStatic" /\ Len(last.who) = 1) =>
       \A k \in Keys :
         CarriesMark(last.who[1], k) =>
           /\ props[last.self][k].kind = "arrow"
           /\ props[last.self][k].this = last.who[1]

C2_Witness ==
  /\ last.op = "callRecipient"
  /\ props["r"]["m"] = Arrow("change", "S2", "r")
  /\ mark["change"].omitFirst
  /\ value["r"] = MaxVal

\* C5: after one binder call that returned, given donors [a, b] that both
\* carry a marked member of the same name, the recipient's member of that
\* name is b's: bound to b by delegate, applying b's function on b by
\* delegateStatic.  The order of the donor list alone decides.
C5_LastWriterWins ==
  (last.op \in Binders /\ ~last.threw /\ Len(last.who) = 2) =>
    \A k \in Keys :
      (CarriesMark(last.who[1], k) /\ CarriesMark(last.who[2], k)) =>
        props[last.self][k] =
          IF last.op = "delegate"
          THEN [kind |-> "bound", f |-> props[last.who[2]][k].f,
                this |-> last.who[2], self |-> "none"]
          ELSE [kind |-> "arrow", f |-> props[last.who[2]][k].f,
                this |-> last.who[2], self |-> last.self]

C5_Witness ==
  /\ last = Op("delegate", "r", <<"d1", "d2">>, <<>>, FALSE)
  /\ CarriesMark("d1", "m")
  /\ CarriesMark("d2", "m")
  /\ props["r"]["m"] = Bound("exampleMethod", "d2")

\* C6: a binder call adds or replaces on the recipient only members whose
\* name is the name of a marked member of one of the donors given; the
\* prototype's constructor and unmarked methods are never installed.
C6_OnlyMarkedInstalled ==
  [][last'.op \in Binders =>
       \A r \in Recipients, k \in Keys :
         props'[r][k] # props[r][k] =>
           \E i \in 1..Len(last'.who) : CarriesMark(last'.who[i], k)]_vars

C6_Witness ==
  /\ last.op = "delegate"
  /\ last.who = <<"d2">>
  /\ CarriesMark("d2", "m")
  /\ ~CarriesMark("d2", "w")
  /\ props["r"]["m"] = Bound("exampleMethod", "d2")
  /\ props["r"]["w"] = Absent
  /\ props["r"]["constructor"] = Absent

\* C7: delegate(recipient, donors) raises no error when donors is empty or
\* when no donor has a marked member, whatever the values of the donors'
\* members, undefined and null included.
C7_NoErrorOnUnmarked ==
  (/\ last.op = "delegate"
   /\ \A i \in 1..Len(last.who), k \in Keys : ~CarriesMark(last.who[i], k))
    => ~last.threw

\* C8: a binder call changes nothing of a donor: not its members, not its
\* fields, not the marks of its functions.
C8_DonorsUnchanged ==
  [][last'.op \in Binders =>
       /\ \A d \in Donors :
            /\ props'[d] = props[d]
            /\ value'[d] = value[d]
            /\ field'[d] = field[d]
            /\ fieldMark'[d] = fieldMark[d]
       /\ mark' = mark]_vars

C8_Witness ==
  /\ last.op \in Binders
  /\ ~last.threw
  /\ Len(last.who) = 2
  /\ \E k \in Keys : props[last.self][k].this = last.who[2]

\* C9: DelegateMethod(omitFirst) on a method leaves its mark isDelegated
\* true with the omitFirst given (false when none is given), also when the
\* method was marked before with another mode; it raises nothing and changes
\* no other mark, no member and no field, so a direct call behaves as before.
C9_MarkSetsMode ==
  [][last'.op = "DelegateMethod" =>
       LET f == last'.who[1] IN
       /\ mark'[f].isDelegated
       /\ mark'[f].omitFirst = (last'.omit = <<TRUE>>)
       /\ ~last'.threw
       /\ \A g \in Fns \ {f} : mark'[g] = mark[g]
       /\ props' = props
       /\ value' = value
       /\ \A d \in Classes, k \in Keys, a \in DirectArgLists :
            props[d][k].kind = "fn" =>
              Apply(props'[d][k].f, d, a, value') = Apply(props[d][k].f, d, a, value)]_vars

C9_Witness ==
  /\ last = Op("DelegateMethod", "none", <<"change">>, <<>>, FALSE)
  /\ mark["change"] = [isDelegated |-> TRUE, omitFirst |-> FALSE]
  /\ props["r"]["m"] = Arrow("change", "S2", "r")
  /\ value["r"] > 0

\* What every call through an installed arrow function does, in one state.
ArrowCalls ==
  \A r \in Recipients, k \in Keys :
    props[r][k].kind = "arrow" =>
      \A a \in ArgLists :
        LET cl == props[r][k]
            inv == Invoke(cl, k, a)
        IN /\ inv.f = cl.f
           /\ inv.this = cl.this
           /\ inv.args = IF mark[cl.f].omitFirst THEN <<Ref(r)>> \o a ELSE a

\* The function each installed arrow function applies.
ArrowTargets ==
  [r \in Recipients |-> [k \in Keys |->
     IF props[r][k].kind = "arrow" THEN Invoke(props[r][k], k, <<>>).f ELSE "none"]]

\* C10: the callable delegateStatic installs applies the function the donor
\* held at bind time and reads that function's omitFirst at every call: after
\* every step that binds, marks or reassigns, a call through the recipient
\* passes the recipient first exactly when the mark is true now, and
\* assigning the donor's static member another function leaves the function
\* each installed callable applies as it was.
C10_LateModeEarlyTarget ==
  [][/\ last'.op \in {"delegateStatic", "DelegateMethod", "reassignStatic"} => ArrowCalls'
     /\ last'.op = "delegateStatic" =>
          \A r \in Recipients, k \in Keys :
            props'[r][k] # props[r][k] =>
              \E i \in 1..Len(last'.who) :
                props'[r][k] = Arrow(props[last'.who[i]][k].f, last'.who[i], r)
     /\ last'.op = "reassignStatic" => ArrowTargets' = ArrowTargets]_vars

C10_Witness ==
  /\ last.op = "callRecipient"
  /\ props["r"]["m"] = Arrow("add", "S1", "r")
  /\ props["S1"]["m"] = FnVal("change")
  /\ mark["add"].omitFirst

\* C3: for a donor field marked with the default mode, after binding,
\* reading recipient.field returns the donor's current value, and after
\* recipient.field = V the recipient reads V and the donor's storage holds V.
C3_FieldRoundTrip ==
  [][/\ (last'.op \in Binders /\ ~last'.threw) =>
          \A i \in 1..Len(last'.who) :
            fieldMark[last'.who[i]] = DefaultFieldMark =>
              field'[last'.self] = field'[last'.who[i]]
     /\ last'.op = "assignRecipientField" =>
          \A d \in FieldDonors :
            (HasBound(last'.self, d) /\ fieldMark[d] = DefaultFieldMark) =>
              /\ field'[last'.self].has
              /\ field'[d] = field'[last'.self]]_vars

====
